---- MODULE Spec2Model ----
(***************************************************************************)
(* Model of md2json.py: the Markdown-to-JSON converter.                    *)
(*                                                                         *)
(* Text is a sequence of one-character strings.  The model follows the     *)
(* control flow of main(): read_file, the empty-document short cut,        *)
(* convert_markdown_to_json (one step per line of the document), the JSON  *)
(* serialisation and write_file.  convert_markdown_to_json is a public     *)
(* function of the module, so a run may also start directly in it.         *)
(***************************************************************************)
EXTENDS Integers, Sequences, FiniteSets, TLC

VARIABLES entry, pc, in_file, out_file, md_content, lines, idx, sections,
          current_section, json_data, json_output, printed, converted,
          written

vars == <<entry, pc, in_file, out_file, md_content, lines, idx, sections,
          current_section, json_data, json_output, printed, converted,
          written>>

(***************************************************************************)
(* Bounds of the explored inputs.                                          *)
(***************************************************************************)
MaxLen == 5
MaxLines == 4
MaxBody == 7

(***************************************************************************)
(* Characters.  Whitespace is the set of modelled characters c with        *)
(* c.isspace(); LineBreaks the modelled characters str.splitlines() splits *)
(* on.  Every line boundary of Python is also a whitespace character.      *)
(***************************************************************************)
Chars == {"#", " ", "a", "\n", "\r"}
BodyChars == {"a", " ", "\n"}
Whitespace == {" ", "\t", "\n", "\r"}
LineBreaks == {"\n", "\r"}

IsSpace(c) == c \in Whitespace

Drop(s, n) == SubSeq(s, n + 1, Len(s))

(* str.splitlines(): break at "\n", "\r" and "\r\n" (one boundary); no     *)
(* empty last line after a final boundary.                                 *)
RECURSIVE splitlines(_)
splitlines(s) ==
  IF s = <<>> THEN <<>>
  ELSE LET brk == {k \in 1..Len(s) : s[k] \in LineBreaks}
       IN IF brk = {} THEN <<s>>
          ELSE LET k == CHOOSE j \in brk : \A m \in brk : j <= m
                   e == IF s[k] = "\r" /\ k < Len(s) /\ s[k + 1] = "\n"
                        THEN k + 1 ELSE k
               IN <<SubSeq(s, 1, k - 1)>> \o splitlines(Drop(s, e))

(* str.strip(): remove leading and trailing whitespace.                    *)
RECURSIVE lstrip(_)
lstrip(s) == IF s # <<>> /\ IsSpace(s[1]) THEN lstrip(Tail(s)) ELSE s

RECURSIVE rstrip(_)
rstrip(s) ==
  IF s # <<>> /\ IsSpace(s[Len(s)]) THEN rstrip(SubSeq(s, 1, Len(s) - 1))
  ELSE s

strip(s) == rstrip(lstrip(s))

(***************************************************************************)
(* header_pattern = re.compile(r'^##\s*(.+)$'), used with .match(line).    *)
(* After the two '#', \s* takes k whitespace characters, (.+) takes the    *)
(* rest, which must be non-empty and free of "\n" ('.' excludes it), and $ *)
(* accepts the end of the string or a final "\n".  \s* is greedy: the      *)
(* engine tries the largest k first and backtracks.                        *)
(***************************************************************************)
WsRun(s, p) ==
  (* number of consecutive whitespace characters of s from position p *)
  LET ends == {n \in 0..(Len(s) - p + 1) :
                 \A j \in p..(p + n - 1) : IsSpace(s[j])}
  IN CHOOSE n \in ends : \A m \in ends : m <= n

DotPlusEnd(r) ==
  (* r is matched by (.+)$ *)
  LET body == IF r # <<>> /\ r[Len(r)] = "\n"
              THEN SubSeq(r, 1, Len(r) - 1) ELSE r
  IN /\ \/ (r # <<>> /\ \A j \in 1..Len(r) : r[j] # "\n")
        \/ (body # <<>> /\ \A j \in 1..Len(body) : body[j] # "\n")

HeaderSplits(line) ==
  (* the values k for which ^##\s{k}(.+)$ matches *)
  IF Len(line) >= 2 /\ line[1] = "#" /\ line[2] = "#"
  THEN {k \in 0..WsRun(line, 3) : DotPlusEnd(Drop(line, 2 + k))}
  ELSE {}

header_pattern(line) == HeaderSplits(line) # {}

(* match.group(1): the capture of the greedy match.                        *)
group1(line) ==
  LET ks == HeaderSplits(line)
      k == CHOOSE n \in ks : \A m \in ks : m <= n
      r == Drop(line, 2 + k)
  IN IF \A j \in 1..Len(r) : r[j] # "\n" THEN r
     ELSE SubSeq(r, 1, Len(r) - 1)

(***************************************************************************)
(* re.sub(r'\n\s*\n', '\n\n', s): scanning from the left, a match starts   *)
(* at a "\n" whose following whitespace run contains another "\n"; the     *)
(* greedy \s* makes the match end at the last "\n" of that run.  Matches   *)
(* do not overlap.                                                         *)
(***************************************************************************)
LastNewline(s, p) ==
  (* position of the last "\n" in the whitespace run after p, 0 if none *)
  LET n == WsRun(s, p + 1)
      nl == {j \in (p + 1)..(p + n) : s[j] = "\n"}
  IN IF nl = {} THEN 0 ELSE CHOOSE j \in nl : \A m \in nl : m <= j

(* variant: content.replace('\n\n\n', '\n\n'), one pass over the text *)
RECURSIVE resub_naive(_, _)
resub_naive(s, p) ==
  IF p > Len(s) THEN <<>>
  ELSE IF p + 2 <= Len(s) /\ SubSeq(s, p, p + 2) = <<"\n", "\n", "\n">>
       THEN <<"\n", "\n">> \o resub_naive(s, p + 3)
       ELSE <<s[p]>> \o resub_naive(s, p + 1)

RECURSIVE resub(_, _)
resub(s, p) ==
  IF p > Len(s) THEN <<>>
  ELSE IF s[p] = "\n" /\ LastNewline(s, p) > 0
       THEN <<"\n", "\n">> \o resub(s, LastNewline(s, p) + 1)
       ELSE <<s[p]>> \o resub(s, p + 1)

(* variant: strip only, the blank-line runs are kept *)
cleaned_content_strip(s) == strip(s)

(* cleaned_content: strip, then collapse blank-line runs.                  *)
cleaned_content(s) == resub(strip(s), 1)

(***************************************************************************)
(* A section under construction.  The empty dict {} is the record with     *)
(* set = FALSE; a dict is true in a condition exactly when it has keys.    *)
(***************************************************************************)
NoSection == [set |-> FALSE, title |-> <<>>, content |-> <<>>]

(* variant: the capture is not stripped *)
section_title_raw(line) == group1(line)

(* title = match.group(1).strip()                                          *)
section_title(line) == strip(group1(line))

(* variant: the newline terminator is forgotten *)
append_line_bare(content, line) == content \o line

(* current_section['content'] += line + '\n'                               *)
append_line(content, line) == content \o line \o <<"\n">>

(* variant: the closed section is inserted in front *)
close_section_front(secs, cur) ==
  IF cur.set
  THEN <<[title |-> cur.title, content |-> cleaned_content(cur.content)]>>
       \o secs
  ELSE secs

(* if current_section: clean its content and sections.append(it)           *)
close_section(secs, cur) ==
  IF cur.set
  THEN Append(secs, [title |-> cur.title,
                     content |-> cleaned_content(cur.content)])
  ELSE secs

(* the body of the for loop, for one line                                  *)
loop_body(st, line) ==
  IF header_pattern(line)
  THEN [sections |-> close_section(st.sections, st.current_section),
        current_section |-> [set |-> TRUE, title |-> section_title(line),
                             content |-> <<>>]]
  ELSE [sections |-> st.sections,
        current_section |->
          IF st.current_section.set
          THEN [st.current_section EXCEPT
                  !.content = append_line(@, line)]
          ELSE st.current_section]

(* variant: the section still open at the end of the loop is lost *)
after_loop_drop(secs, cur) == secs

(* the code after the loop: close the last section, return sections        *)
after_loop(secs, cur) == close_section(secs, cur)

RECURSIVE run_loop(_, _)
run_loop(st, ls) ==
  IF ls = <<>> THEN st ELSE run_loop(loop_body(st, Head(ls)), Tail(ls))

(* convert_markdown_to_json as a function of its argument                  *)
convert_markdown_to_json(md) ==
  LET st == run_loop([sections |-> <<>>, current_section |-> NoSection],
                     splitlines(md))
  IN after_loop(st.sections, st.current_section)

(* variant: only the empty string counts as an empty document *)
is_empty_document_exact(md) == md = <<>>

(* not md_content.strip()                                                  *)
is_empty_document(md) == strip(md) = <<>>

(***************************************************************************)
(* open(filepath, 'r') reads in universal-newlines mode: "\r\n" and "\r"   *)
(* arrive as "\n".                                                         *)
(***************************************************************************)
RECURSIVE universal_newlines(_)
universal_newlines(s) ==
  IF s = <<>> THEN <<>>
  ELSE IF s[1] = "\r"
       THEN <<"\n">> \o universal_newlines(
              IF Len(s) >= 2 /\ s[2] = "\n" THEN Drop(s, 2) ELSE Tail(s))
       ELSE <<s[1]>> \o universal_newlines(Tail(s))

(***************************************************************************)
(* json.dumps(json_data, indent=2, ensure_ascii=False)                     *)
(***************************************************************************)
RECURSIVE json_string_body(_)
json_string_body(s) ==
  IF s = <<>> THEN <<>>
  ELSE (CASE s[1] = "\n" -> <<"\\", "n">>
          [] s[1] = "\r" -> <<"\\", "r">>
          [] s[1] = "\t" -> <<"\\", "t">>
          [] s[1] = "\"" -> <<"\\", "\"">>
          [] s[1] = "\\" -> <<"\\", "\\">>
          [] OTHER -> <<s[1]>>) \o json_string_body(Tail(s))

json_string(s) == <<"\"">> \o json_string_body(s) \o <<"\"">>

json_object(sec) ==
  <<" ", " ", "{", "\n">>
  \o <<" ", " ", " ", " ", "\"", "t", "i", "t", "l", "e", "\"", ":", " ">>
  \o json_string(sec.title) \o <<",", "\n">>
  \o <<" ", " ", " ", " ",
       "\"", "c", "o", "n", "t", "e", "n", "t", "\"", ":", " ">>
  \o json_string(sec.content) \o <<"\n", " ", " ", "}">>

RECURSIVE json_items(_)
json_items(data) ==
  IF Len(data) = 1 THEN json_object(data[1])
  ELSE json_object(data[1]) \o <<",", "\n">> \o json_items(Tail(data))

dumps(data) ==
  IF data = <<>> THEN <<"[", "]">>
  ELSE <<"[", "\n">> \o json_items(data) \o <<"\n", "]">>

(***************************************************************************)
(* Inputs.                                                                 *)
(***************************************************************************)
Strings(alphabet, n) == UNION {[1..k -> alphabet] : k \in 0..n}

ShortTexts == Strings(Chars, MaxLen)

LinePool ==
  { <<"#", "#", "a">>, <<"#", "#", " ", "a", " ", "b", " ">>,
    <<"#", "#", "#", "a">>, <<"#", "#", " ">>, <<"a">>, <<" ">>, <<>> }

RECURSIVE JoinLines(_)
JoinLines(ls) ==
  IF Len(ls) = 1 THEN ls[1] ELSE ls[1] \o <<"\n">> \o JoinLines(Tail(ls))

PoolDocs ==
  {JoinLines(ls) : ls \in UNION {[1..k -> LinePool] : k \in 1..MaxLines}}

HeadedBodies ==
  {<<"#", "#", "a", "\n">> \o b : b \in Strings(BodyChars, MaxBody)}

Texts == ShortTexts \cup PoolDocs \cup HeadedBodies

(* the input and the output file *)
NoFile == [state |-> "missing", data |-> <<>>]
Files ==
  {NoFile, [state |-> "unreadable", data |-> <<>>]}
  \cup {[state |-> "ok", data |-> d] : d \in ShortTexts}
OldOutput == [state |-> "ok", data |-> <<"o", "l", "d">>]

(***************************************************************************)
(* Initial states: main() about to read the input file, or a direct call   *)
(* of convert_markdown_to_json(md_content).                                *)
(***************************************************************************)
Init ==
  /\ entry \in {"main", "convert"}
  /\ IF entry = "main"
     THEN /\ pc = "read"
          /\ in_file \in Files
          /\ out_file \in {NoFile, OldOutput}
          /\ md_content = <<>>
     ELSE /\ pc = "split"
          /\ in_file = NoFile
          /\ out_file = NoFile
          /\ md_content \in Texts
  /\ lines = <<>>
  /\ idx = 1
  /\ sections = <<>>
  /\ current_section = NoSection
  /\ json_data = <<>>
  /\ json_output = <<>>
  /\ printed = <<>>
  /\ converted = FALSE
  /\ written = FALSE

(* read_file succeeds *)
ReadOk ==
  /\ pc = "read" /\ in_file.state = "ok"
  /\ md_content' = universal_newlines(in_file.data)
  /\ printed' = Append(printed, "reading")
  /\ pc' = "check"
  /\ UNCHANGED <<entry, in_file, out_file, lines, idx, sections,
                 current_section, json_data, json_output, converted,
                 written>>

(* variant: the read error is swallowed and an empty document returned *)
ReadNotFound_swallow ==
  /\ pc = "read" /\ in_file.state = "missing"
  /\ md_content' = <<>>
  /\ printed' = Append(printed, "reading")
  /\ pc' = "check"
  /\ UNCHANGED <<entry, in_file, out_file, lines, idx, sections,
                 current_section, json_data, json_output, converted,
                 written>>

(* read_file raises FileNotFoundError; main prints it and returns *)
ReadNotFound ==
  /\ pc = "read" /\ in_file.state = "missing"
  /\ printed' = printed \o <<"reading", "not_found">>
  /\ pc' = "done"
  /\ UNCHANGED <<entry, in_file, out_file, md_content, lines, idx, sections,
                 current_section, json_data, json_output, converted,
                 written>>

(* read_file raises IOError; main prints it and returns *)
ReadError ==
  /\ pc = "read" /\ in_file.state = "unreadable"
  /\ printed' = printed \o <<"reading", "read_error">>
  /\ pc' = "done"
  /\ UNCHANGED <<entry, in_file, out_file, md_content, lines, idx, sections,
                 current_section, json_data, json_output, converted,
                 written>>

(* if not md_content.strip(): json_data = [] *)
EmptyDocument ==
  /\ pc = "check" /\ is_empty_document(md_content)
  /\ json_data' = <<>>
  /\ printed' = Append(printed, "empty")
  /\ pc' = "dump"
  /\ UNCHANGED <<entry, in_file, out_file, md_content, lines, idx, sections,
                 current_section, json_output, converted, written>>

(* else: json_data = convert_markdown_to_json(md_content) is called *)
CallConvert ==
  /\ pc = "check" /\ ~is_empty_document(md_content)
  /\ pc' = "split"
  /\ UNCHANGED <<entry, in_file, out_file, md_content, lines, idx, sections,
                 current_section, json_data, json_output, printed, converted,
                 written>>

(* entry of convert_markdown_to_json: split the lines, empty accumulators *)
SplitLines ==
  /\ pc = "split"
  /\ lines' = splitlines(md_content)
  /\ idx' = 1
  /\ sections' = <<>>
  /\ current_section' = NoSection
  /\ converted' = TRUE
  /\ pc' = "loop"
  /\ UNCHANGED <<entry, in_file, out_file, md_content, json_data,
                 json_output, printed, written>>

(* one iteration of the loop on a line that matches header_pattern *)
HeaderLine ==
  /\ pc = "loop" /\ idx <= Len(lines) /\ header_pattern(lines[idx])
  /\ LET st == loop_body([sections |-> sections,
                          current_section |-> current_section], lines[idx])
     IN /\ sections' = st.sections
        /\ current_section' = st.current_section
  /\ idx' = idx + 1
  /\ UNCHANGED <<entry, pc, in_file, out_file, md_content, lines, json_data,
                 json_output, printed, converted, written>>

(* one iteration of the loop on a line that does not match *)
ContentLine ==
  /\ pc = "loop" /\ idx <= Len(lines) /\ ~header_pattern(lines[idx])
  /\ LET st == loop_body([sections |-> sections,
                          current_section |-> current_section], lines[idx])
     IN /\ sections' = st.sections
        /\ current_section' = st.current_section
  /\ idx' = idx + 1
  /\ UNCHANGED <<entry, pc, in_file, out_file, md_content, lines, json_data,
                 json_output, printed, converted, written>>

(* the loop is over: close the last section and return *)
Return ==
  /\ pc = "loop" /\ idx > Len(lines)
  /\ sections' = after_loop(sections, current_section)
  /\ current_section' =
       IF current_section.set
       THEN [current_section EXCEPT !.content = cleaned_content(@)]
       ELSE current_section
  /\ json_data' = IF entry = "main" THEN sections' ELSE json_data
  /\ pc' = IF entry = "main" THEN "dump" ELSE "done"
  /\ UNCHANGED <<entry, in_file, out_file, md_content, lines, idx,
                 json_output, printed, converted, written>>

(* json.dumps, then write_file succeeds *)
WriteOk ==
  /\ pc = "dump"
  /\ json_output' = dumps(json_data)
  /\ out_file' = [state |-> "ok", data |-> json_output']
  /\ written' = TRUE
  /\ printed' = printed \o <<"success", "saved">>
  /\ pc' = "done"
  /\ UNCHANGED <<entry, in_file, md_content, lines, idx, sections,
                 current_section, json_data, converted>>

(* json.dumps, then write_file raises IOError: open() failed and the file  *)
(* is untouched, or the file was truncated by open() and the write failed. *)
WriteError ==
  /\ pc = "dump"
  /\ json_output' = dumps(json_data)
  /\ out_file' \in {out_file, [state |-> "ok", data |-> <<>>]}
  /\ written' = TRUE
  /\ printed' = Append(printed, "write_error")
  /\ pc' = "done"
  /\ UNCHANGED <<entry, in_file, md_content, lines, idx, sections,
                 current_section, json_data, converted>>

Next ==
  \/ ReadOk \/ ReadNotFound \/ ReadError
  \/ EmptyDocument \/ CallConvert
  \/ SplitLines \/ HeaderLine \/ ContentLine \/ Return
  \/ WriteOk \/ WriteError

Spec == Init /\ [][Next]_vars

TypeOK ==
  /\ entry \in {"main", "convert"}
  /\ pc \in {"read", "check", "split", "loop", "dump", "done"}
  /\ idx \in 1..(Len(lines) + 1)
  /\ current_section.set \in BOOLEAN

(***************************************************************************)
(* Vocabulary of the properties.                                           *)
(***************************************************************************)
Returned == converted /\ pc \in {"dump", "done"}

Converting == converted /\ pc \in {"loop", "dump", "done"}

(* the lines of the document that match the header pattern *)
HeaderIdx == {k \in 1..Len(lines) : header_pattern(lines[k])}

(* the header lines the loop has already read *)
HeadersRead == {k \in HeaderIdx : k < idx}

(* the i-th header line, counted from 1 *)
NthHeader(i) ==
  CHOOSE k \in HeaderIdx : Cardinality({j \in HeaderIdx : j <= k}) = i

(* the sections opened so far: the closed ones and, inside the loop, the   *)
(* open one (after the loop the open one has been closed and appended)     *)
Opened ==
  Len(sections) + (IF pc = "loop" /\ current_section.set THEN 1 ELSE 0)

(* the line starts with two '#' and the third character is not a '#' *)
ExactlyTwoHashes(line) ==
  /\ Len(line) >= 2 /\ line[1] = "#" /\ line[2] = "#"
  /\ (Len(line) >= 3 => line[3] # "#")

(* lines a+1 .. b-1 of the document, each followed by one newline *)
RECURSIVE LinesBetween(_, _)
LinesBetween(a, b) ==
  IF a + 1 >= b THEN <<>>
  ELSE lines[a + 1] \o <<"\n">> \o LinesBetween(a + 1, b)

(* where the body of the i-th section ends: the next header line, or the   *)
(* end of the document                                                     *)
BodyEnd(i) ==
  IF i < Cardinality(HeaderIdx) THEN NthHeader(i + 1) ELSE Len(lines) + 1

NoEdgeSpace(t) == t = <<>> \/ (~IsSpace(t[1]) /\ ~IsSpace(t[Len(t)]))

(* t is r without its leading and trailing whitespace *)
IsTrimOf(t, r) ==
  /\ NoEdgeSpace(t)
  /\ \E i, j \in 0..Len(r) :
       /\ i + j <= Len(r)
       /\ \A k \in 1..i : IsSpace(r[k])
       /\ \A k \in (Len(r) - j + 1)..Len(r) : IsSpace(r[k])
       /\ t = SubSeq(r, i + 1, Len(r) - j)

HasSub(s, w) ==
  \E k \in 0..(Len(s) - Len(w)) : SubSeq(s, k + 1, k + Len(w)) = w

(* no edge whitespace, no three newlines in a row, no whitespace-only line *)
(* between two newlines                                                    *)
CleanText(c) ==
  /\ NoEdgeSpace(c)
  /\ ~HasSub(c, <<"\n", "\n", "\n">>)
  /\ ~\E p, q \in 1..Len(c) :
        /\ p + 1 < q /\ c[p] = "\n" /\ c[q] = "\n"
        /\ \A j \in (p + 1)..(q - 1) : IsSpace(c[j])

(* the title of the i-th opened section *)
TitleOf(i) ==
  IF i <= Len(sections) THEN sections[i].title ELSE current_section.title

(***************************************************************************)
(* C1: a section is opened only by a line that starts with exactly two '#' *)
(* characters: the number of sections opened so far never exceeds the      *)
(* number of lines read so far that start with exactly two '#'; a line     *)
(* such as '###a' is ordinary content.                                     *)
(***************************************************************************)
C1_OnlyExactlyTwoHashesOpen ==
  Converting =>
    Opened <= Cardinality({k \in 1..(idx - 1) : ExactlyTwoHashes(lines[k])})

(***************************************************************************)
(* C2: at every point of the line loop the closed sections plus the open   *)
(* one are as many as the header lines read so far, and the returned       *)
(* sequence has one section per line matching the header pattern (none for *)
(* an empty document or one without header lines).                         *)
(***************************************************************************)
C2_SectionCount ==
  /\ (pc = "loop") => Opened = Cardinality(HeadersRead)
  /\ Returned => Len(sections) = Cardinality(HeaderIdx)
  /\ (Returned /\ HeaderIdx = {}) => sections = <<>>

C2_Witness ==
  /\ pc = "done" /\ entry = "convert"
  /\ Len(sections) = 2 /\ Cardinality(HeaderIdx) = 2 /\ Len(lines) = 4

(***************************************************************************)
(* C3: the returned sections are in source order: the title of the i-th    *)
(* section is the trimmed title of the i-th header line; header lines with *)
(* equal titles give separate sections.                                    *)
(***************************************************************************)
C3_SourceOrder ==
  Returned =>
    /\ Len(sections) = Cardinality(HeaderIdx)
    /\ \A i \in 1..Len(sections) :
         sections[i].title = strip(group1(lines[NthHeader(i)]))

C3_Witness ==
  /\ pc = "done" /\ Len(sections) = 3
  /\ sections[1].title = sections[3].title
  /\ sections[1].title # sections[2].title

(***************************************************************************)
(* C4: while a section is open its accumulator holds exactly the lines     *)
(* read since its header line, in order, each followed by one newline; a   *)
(* line read before any header line is in no section; the content of a     *)
(* closed section is the normalisation of the lines strictly between its   *)
(* header line and the next header line (or the end of the document).      *)
(***************************************************************************)
C4_ContentLines ==
  /\ (pc = "loop" /\ current_section.set) =>
       current_section.content = LinesBetween(NthHeader(Opened), idx)
  /\ (pc = "loop" /\ ~current_section.set) =>
       (sections = <<>> /\ HeadersRead = {})
  /\ Converting =>
       \A i \in 1..Len(sections) :
         sections[i].content =
           cleaned_content(LinesBetween(NthHeader(i), BodyEnd(i)))

C4_Witness ==
  /\ pc = "done" /\ Len(sections) = 2 /\ Len(lines) = 4
  /\ ~header_pattern(lines[1]) /\ lines[1] # <<>>
  /\ sections[1].content # <<>>

(***************************************************************************)
(* C5: the content of every section has no leading or trailing whitespace, *)
(* no three consecutive newlines and no whitespace-only line between two   *)
(* newlines.                                                               *)
(***************************************************************************)
C5_CleanContent ==
  \A i \in 1..Len(sections) : CleanText(sections[i].content)

(* the body 'a\n\n\n \na' becomes 'a\n\na' *)
C5_Witness ==
  /\ pc = "done"
  /\ md_content = <<"#", "#", "a", "\n", "a", "\n", "\n", "\n", " ", "\n",
                    "a">>
  /\ sections = <<[title |-> <<"a">>,
                   content |-> <<"a", "\n", "\n", "a">>]>>

(***************************************************************************)
(* C6: normalising content that is already normalised changes nothing,     *)
(* for the sections closed at a header line and for the one closed at the  *)
(* end of the document alike; and normalising an accumulator twice gives   *)
(* the same as normalising it once.                                        *)
(***************************************************************************)
C6_NormalizeIdempotent ==
  /\ \A i \in 1..Len(sections) :
       cleaned_content(sections[i].content) = sections[i].content
  /\ current_section.set =>
       cleaned_content(cleaned_content(current_section.content))
         = cleaned_content(current_section.content)

C6_Witness ==
  /\ pc = "done" /\ Len(sections) = 1
  /\ HasSub(md_content, <<"\n", "\n", "\n", "\n">>)
  /\ HasSub(sections[1].content, <<"\n", "\n">>)

(***************************************************************************)
(* C7: the title of every opened section is the text after the '##' of its *)
(* header line without its leading and trailing whitespace, the inner      *)
(* whitespace kept; no title starts or ends with a whitespace character.   *)
(***************************************************************************)
C7_TitleTrimmed ==
  Converting =>
    \A i \in 1..Opened :
      /\ IsTrimOf(TitleOf(i), Drop(lines[NthHeader(i)], 2))
      /\ NoEdgeSpace(TitleOf(i))

C7_Witness ==
  /\ pc = "done"
  /\ \E k \in 1..Len(lines) :
       lines[k] = <<"#", "#", " ", "a", " ", "b", " ">>
  /\ \E i \in 1..Len(sections) : sections[i].title = <<"a", " ", "b">>

(***************************************************************************)
(* C8: when main cannot read the input file, write_file is not called, the *)
(* output file stays as it was, nothing is serialised, and main ends by    *)
(* printing the error.                                                     *)
(***************************************************************************)
C8_ReadFailureWritesNothing ==
  (entry = "main" /\ in_file.state # "ok") =>
    /\ ~written /\ ~converted
    /\ out_file \in {NoFile, OldOutput}
    /\ json_output = <<>>
    /\ pc \in {"read", "done"}
    /\ pc = "done" =>
         printed \in {<<"reading", "not_found">>, <<"reading", "read_error">>}

C8_Witness ==
  /\ entry = "main" /\ pc = "done" /\ in_file.state = "missing"
  /\ out_file = OldOutput /\ ~written
  /\ printed = <<"reading", "not_found">>

(***************************************************************************)
(* C9: when the document read by main is empty or whitespace only, the     *)
(* splitter is not invoked, the serialised value is the empty JSON array,  *)
(* and the splitter would have returned the same for that document.        *)
(***************************************************************************)
C9_EmptyDocumentShortCut ==
  (/\ entry = "main" /\ in_file.state = "ok" /\ pc \in {"dump", "done"}
   /\ \A k \in 1..Len(md_content) : IsSpace(md_content[k])) =>
    /\ ~converted
    /\ json_data = <<>>
    /\ written => json_output = <<"[", "]">>
    /\ dumps(convert_markdown_to_json(md_content)) = dumps(json_data)

C9_Witness ==
  /\ entry = "main" /\ pc = "done" /\ md_content = <<" ", "\n">>
  /\ out_file = [state |-> "ok", data |-> <<"[", "]">>]
  /\ ~converted

(***************************************************************************)
(* C10: every section has a non-empty title; '##' followed only by         *)
(* whitespace does not open a section.                                     *)
(***************************************************************************)
C10_TitleNonEmpty ==
  Converting => \A i \in 1..Opened : TitleOf(i) # <<>>

====
